---- MODULE Spec2Model ----
(***************************************************************************)
(* Constrained generation pipeline of the stress-popup service:            *)
(*   app/services/popup_generator.py     generate_popups and its fallback  *)
(*   app/services/question_generator.py  generate_question,                *)
(*                                       generate_counter_questions        *)
(* One behaviour is one invocation of one entry point.  Python strings are *)
(* TLA+ strings, handled character by character.                           *)
(***************************************************************************)
EXTENDS Integers, Sequences, FiniteSets, TLC

VARIABLES
    op,               \* entry point of this invocation ("idle" before the call)
    pc,               \* position of the invocation
    backend,          \* state of the generative backend during the invocation
    stress_profile,   \* generate_popups: the caller's profile
    emotion_signals,  \* generate_popups / _fallback_popups: the signals argument
    attempt,          \* loop variable of "for attempt in (1, 2)"
    calls,            \* number of backend calls made so far
    outcomes,         \* how each finished attempt ended, in order
    valid_popups,     \* generate_popups: accepted candidates of the current attempt
    caller,           \* who called _fallback_popups: "ensure", "final" or "direct"
    count,            \* _fallback_popups: count
    seen,             \* _fallback_popups: seen (the caller's set, mutated in place)
    seen0,            \* value of seen when _fallback_popups was called
    sequence,         \* _fallback_popups: sequence
    idx,              \* _fallback_popups: idx, kept modulo len(sequence)
    created,          \* _fallback_popups: created
    user_text,        \* generate_counter_questions: stripped text
    num_questions,    \* generate_counter_questions: num_questions
    slot_target,      \* generate_question: (domain, slot)
    result,           \* the returned list (or question, or verdict)
    exc,              \* exception that left the entry point, "" if none
    valid_questions,  \* generate_counter_questions: valid_questions
    earlier,          \* results of the earlier calls of _fallback_popups on this seen set
    question,         \* is_valid_question: the text it is called with
    profile0,         \* the profile as the caller held it before generate_popups
    payload,          \* generate_popups: payload
    passing,          \* candidates of the last response that pass every check alone
    chain,            \* checks the accepted candidates went through, in order
    request,          \* on_suggest_request: request.sid and the event's data
    emissions,        \* what the handler has emitted, in order
    dedup,            \* generate_popups: seen, as the next attempt finds it
                      \* (the name is dead once the loop is left: {} then)
    preempted,        \* the invocation was suspended between two of its steps
    other             \* the locals of a second, suspended invocation

vars == <<op, pc, backend, stress_profile, emotion_signals, attempt, calls, outcomes,
          valid_popups, caller, count, seen, seen0, sequence, idx, created,
          user_text, num_questions, slot_target, result, exc,
          valid_questions, earlier, question, profile0, payload, passing, chain,
          request, emissions, dedup, preempted, other>>

(***************************************************************************)
(* Bounds of the model                                                     *)
(***************************************************************************)
MaxSignals == 2      \* longest emotion_signals list
MaxSpecials == 2     \* hand-made candidates in front of a backend response
MaxCount == 6        \* largest count of a direct _fallback_popups call
MaxQuestions == 2    \* longest questions list of a counter-question response
MaxAsk == 4          \* largest num_questions asked of generate_counter_questions
MaxRepeats == 1      \* repeated calls of _fallback_popups with the same arguments
MaxPad == 21         \* filler words in front of a text given to is_valid_question
MaxItems == 5        \* longest suggestions list of a suggestion response

(***************************************************************************)
(* Python string operations                                                *)
(***************************************************************************)
Char(s, i) == SubSeq(s, i, i)

IsSpace(c) == c \in {" ", "\n", "\t"}

RECURSIVE FirstNonSpace(_, _)
FirstNonSpace(s, i) ==
    IF i > Len(s) THEN i
    ELSE IF IsSpace(Char(s, i)) THEN FirstNonSpace(s, i + 1) ELSE i

RECURSIVE LastNonSpace(_, _)
LastNonSpace(s, i) ==
    IF i < 1 THEN 0
    ELSE IF IsSpace(Char(s, i)) THEN LastNonSpace(s, i - 1) ELSE i

\* str.strip()
Strip(s) == SubSeq(s, FirstNonSpace(s, 1), LastNonSpace(s, Len(s)))

\* sub in s
Contains(s, sub) ==
    \E i \in 1..(Len(s) - Len(sub) + 1) : SubSeq(s, i, i + Len(sub) - 1) = sub

\* s.endswith(suffix)
EndsWith(s, suffix) ==
    /\ Len(s) >= Len(suffix)
    /\ SubSeq(s, Len(s) - Len(suffix) + 1, Len(s)) = suffix

LowerTable ==
    ("A" :> "a") @@ ("B" :> "b") @@ ("C" :> "c") @@ ("D" :> "d") @@ ("E" :> "e") @@
    ("F" :> "f") @@ ("G" :> "g") @@ ("H" :> "h") @@ ("I" :> "i") @@ ("J" :> "j") @@
    ("K" :> "k") @@ ("L" :> "l") @@ ("M" :> "m") @@ ("N" :> "n") @@ ("O" :> "o") @@
    ("P" :> "p") @@ ("Q" :> "q") @@ ("R" :> "r") @@ ("S" :> "s") @@ ("T" :> "t") @@
    ("U" :> "u") @@ ("V" :> "v") @@ ("W" :> "w") @@ ("X" :> "x") @@ ("Y" :> "y") @@
    ("Z" :> "z")

LowerChar(c) == IF c \in DOMAIN LowerTable THEN LowerTable[c] ELSE c

\* characters i..j of s lowered, by halves
RECURSIVE LowerFrom(_, _, _)
LowerFrom(s, i, j) ==
    IF i > j THEN ""
    ELSE IF i = j THEN LowerChar(Char(s, i))
    ELSE LowerFrom(s, i, (i + j) \div 2) \o LowerFrom(s, (i + j) \div 2 + 1, j)

\* str.lower()
Lower(s) == LowerFrom(s, 1, Len(s))

\* list[:n]
Take(list, n) == SubSeq(list, 1, IF n < Len(list) THEN n ELSE Len(list))

Range(list) == {list[i] : i \in 1..Len(list)}

(***************************************************************************)
(* popup_generator.py: the fallback filler                                 *)
(***************************************************************************)
FALLBACK_TEMPLATES ==
    [pressure    |-> "They're preparing. You're panicking.",
     self_doubt  |-> "You know you're not ready. So do they.",
     panic       |-> "Clock's ticking. You're not.",
     motivation  |-> "Dreams don't wait. Neither do results.",
     distraction |-> "Phone won. You lost. Again."]

TemplateTypes == DOMAIN FALLBACK_TEMPLATES

Defaults == <<"pressure", "self_doubt", "panic", "motivation", "distraction">>

FallbackTtl == 8000

\* one loop of _fallback_sequence: append the members of the template table
\* that are not yet in ordered
RECURSIVE AppendNew(_, _, _)
AppendNew(ordered, names, i) ==
    IF i > Len(names) THEN ordered
    ELSE AppendNew(
            IF names[i] \in TemplateTypes /\ names[i] \notin Range(ordered)
                THEN Append(ordered, names[i]) ELSE ordered,
            names, i + 1)

\* the defaults alone, whatever the signals
DefaultsOnly(signals) == AppendNew(<<>>, Defaults, 1)

_fallback_sequence(signals) == AppendNew(AppendNew(<<>>, signals, 1), Defaults, 1)

FallbackPayload(popup_type) ==
    [type |-> popup_type, message |-> FALLBACK_TEMPLATES[popup_type], ttl |-> FallbackTtl]

\* the key _fallback_popups tests against seen
FallbackKey(popup_type) == <<popup_type, Strip(FALLBACK_TEMPLATES[popup_type])>>

\* "while len(created) < count"
LoopContinues(made, wanted) == Len(made) < wanted

\* the test of the seen set left out
NeverSeen(key, seenKeys) == FALSE

\* "if key in seen: continue"
AlreadySeen(key, seenKeys) == key \in seenKeys

SignalNames == {"panic", "motivation", "joy"}

SeqsUpTo(S, n) == UNION {[1..k -> S] : k \in 0..n}

SignalLists == SeqsUpTo(SignalNames, MaxSignals)

\* _fallback_sequence of each signal list, computed once; f @@ <<>> is f,
\* held as a table
SequenceTable == [signals \in SignalLists |-> _fallback_sequence(signals)] @@ <<>>

\* lines 40-44 of _fallback_popups: the locals before the loop
StartFallback(who, wanted, seenKeys, signals) ==
    /\ caller' = who
    /\ count' = wanted
    /\ seen' = seenKeys
    /\ seen0' = seenKeys
    /\ sequence' = SequenceTable[signals]
    /\ idx' = 0
    /\ created' = <<>>
    /\ pc' = "fb_loop"

\* one iteration of the while loop of _fallback_popups.  The loop reads idx
\* only as idx % len(sequence), so idx is kept modulo len(sequence).
FallbackIterate ==
    /\ pc = "fb_loop"
    /\ sequence # <<>>
    /\ LoopContinues(created, count)
    /\ LET popup_type == sequence[(idx % Len(sequence)) + 1]
           message == IF popup_type \in TemplateTypes
                        THEN FALLBACK_TEMPLATES[popup_type] ELSE ""
       IN  /\ idx' = (idx + 1) % Len(sequence)
           /\ IF message = "" \/ AlreadySeen(FallbackKey(popup_type), seen)
                THEN UNCHANGED <<created, seen>>
                ELSE /\ created' = Append(created, FallbackPayload(popup_type))
                     /\ seen' = seen \cup {FallbackKey(popup_type)}
    /\ UNCHANGED <<request, emissions, dedup, preempted, other, op, pc, backend, stress_profile, emotion_signals, attempt, calls,
                   outcomes, valid_popups, caller, count, seen0, sequence,
                   user_text, num_questions, slot_target, result, exc,
                   valid_questions, earlier, question, profile0, payload, passing, chain>>

Minimum == 40
Limit == 50
FinalCount == 40
FinalLimit == 50

\* "return created", and what the caller does with the returned list
FallbackReturn ==
    /\ pc = "fb_loop"
    /\ sequence = <<>> \/ ~LoopContinues(created, count)
    /\ result' = CASE caller = "ensure" -> Take(valid_popups \o created, Limit)
                   [] caller = "final"  -> Take(created, FinalLimit)
                   [] OTHER             -> created
    /\ pc' = "done"
    /\ UNCHANGED <<request, emissions, dedup, preempted, other, op, backend, stress_profile, emotion_signals, attempt, calls,
                   outcomes, valid_popups, caller, count, seen, seen0, sequence, idx,
                   created, user_text, num_questions, slot_target, exc,
                   valid_questions, earlier, question, profile0, payload, passing, chain>>

(***************************************************************************)
(* Inputs                                                                  *)
(***************************************************************************)
TemplateKeys == {FallbackKey(t) : t \in TemplateTypes}

\* seen sets handed to a direct call of _fallback_popups
SeenSets ==
    { {}, {FallbackKey("pressure")}, {FallbackKey("panic"), FallbackKey("motivation")},
      {<<"self_doubt", Lower(FALLBACK_TEMPLATES["self_doubt"])>>}, TemplateKeys }

\* a direct call _fallback_popups(count, seen, emotion_signals)
FallbackPopupsCall ==
    /\ pc = "idle"
    /\ \E wanted \in 0..MaxCount, seenKeys \in SeenSets, signals \in SignalLists :
        /\ op' = "fallback"
        /\ emotion_signals' = signals
        /\ StartFallback("direct", wanted, seenKeys, signals)
    /\ UNCHANGED <<request, emissions, dedup, preempted, other, backend, stress_profile, attempt, calls, outcomes, valid_popups,
                   user_text, num_questions, slot_target, result, exc,
                   valid_questions, earlier, question, profile0, payload, passing, chain>>

\* the caller keeps the list a direct call returned and calls
\* _fallback_popups again with the same count and signals and either the
\* same set object, as the first call left it, or an equal copy of what the
\* set held before the first call
FallbackPopupsAgain ==
    /\ pc = "done"
    /\ op = "fallback"
    /\ Len(earlier) < MaxRepeats
    /\ earlier' = Append(earlier, result)
    /\ \E seenKeys \in {seen, seen0} :
            StartFallback("direct", count, seenKeys, emotion_signals)
    /\ UNCHANGED <<request, emissions, dedup, preempted, other, op, backend, stress_profile, emotion_signals, attempt, calls,
                   outcomes, valid_popups, user_text, num_questions, slot_target,
                   result, exc, valid_questions, question, profile0, payload,
                   passing, chain>>

(***************************************************************************)
(* Profiles.  keys are the top-level keys of the mapping, raw_text the     *)
(* value under "__raw_text__" ("" when absent), sections the nested        *)
(* mappings (slot -> value, "" for an empty value), clarifiers the list    *)
(* under "__clarifiers__": dicts with an answer, strings, other values.    *)
(***************************************************************************)
NoSections == [name \in {} |-> <<>>]

EmptyProfile == [keys |-> {}, raw_text |-> "", sections |-> NoSections, clarifiers |-> <<>>]

PlainProfile ==
    [keys |-> {"distractions"}, raw_text |-> "",
     sections |-> [distractions |-> [phone_app |-> "Instagram", gaming_app |-> ""]],
     clarifiers |-> <<>>]

VentProfile ==
    [keys |-> {"distractions", "family_pressure", "__raw_text__", "__clarifiers__"},
     raw_text |-> "I hate my friends",
     sections |-> [distractions |-> [friend_name |-> "Rohan"],
                   family_pressure |-> [family_member |-> "dad", expectation_type |-> "rank"]],
     clarifiers |-> <<[kind |-> "dict", answer |-> "They never call me"],
                      [kind |-> "dict", answer |-> "  "],
                      [kind |-> "other", answer |-> ""],
                      [kind |-> "str", answer |-> " always busy "]>>]

Profiles == {EmptyProfile, PlainProfile, VentProfile}

\* _build_profile_summary: <<section, slot, field of the summary>>, in the
\* order of the code
SummaryFields == <<
    <<"distractions", "phone_app", "app">>,
    <<"distractions", "gaming_app", "game">>,
    <<"distractions", "gaming_time", "gaming_hours">>,
    <<"distractions", "friend_name", "friend">>,
    <<"academic_confidence", "weak_subject", "weak_subject">>,
    <<"academic_confidence", "last_test_experience", "last_test">>,
    <<"time_pressure", "exam_time_left", "days_left">>,
    <<"time_pressure", "study_hours_per_day", "study_hours">>,
    <<"social_comparison", "comparison_person", "rival">>,
    <<"family_pressure", "family_member", "family">>,
    <<"family_pressure", "expectation_type", "expectation">> >>

\* every listed slot that is present copied, the empty ones too
SummaryKeepingEmpty(profile) ==
    LET copied == {e \in Range(SummaryFields) :
                    /\ e[1] \in DOMAIN profile.sections
                    /\ e[2] \in DOMAIN profile.sections[e[1]]}
    IN  [field \in {e[3] : e \in copied} |->
            profile.sections[(CHOOSE e \in copied : e[3] = field)[1]]
                            [(CHOOSE e \in copied : e[3] = field)[2]]]

_build_profile_summary(profile) ==
    LET Value(e) == profile.sections[e[1]][e[2]]
        copied == {e \in Range(SummaryFields) :
                    /\ e[1] \in DOMAIN profile.sections
                    /\ e[2] \in DOMAIN profile.sections[e[1]]
                    /\ Value(e) # ""}
    IN  [field \in {e[3] : e \in copied} |->
            Value(CHOOSE e \in copied : e[3] = field)]

_extract_user_words(profile) ==
    LET Kept(item) == item.kind \in {"dict", "str"} /\ Strip(item.answer) # ""
        answers == SelectSeq(profile.clarifiers, Kept)
    IN  (IF profile.raw_text # "" THEN <<profile.raw_text>> ELSE <<>>)
            \o [i \in 1..Len(answers) |-> answers[i].answer]

\* the profiles _build_profile_summary is applied to on its own: each of the
\* five sections it reads is absent, an empty mapping, a mapping whose listed
\* slots are all empty, one with its first listed slot filled, or one with
\* every listed slot and a slot the summary does not list filled
SectionNames == {e[1] : e \in Range(SummaryFields)}

SectionShapes == {"absent", "empty", "blank", "first", "full"}

ListedSlots(section) == {e[2] : e \in {f \in Range(SummaryFields) : f[1] = section}}

FirstSlot(section) ==
    SummaryFields[CHOOSE i \in 1..Len(SummaryFields) :
        /\ SummaryFields[i][1] = section
        /\ \A j \in 1..(i - 1) : SummaryFields[j][1] # section][2]

SectionOfShape(section, shape) ==
    IF shape = "empty" THEN NoSections
    ELSE IF shape = "blank" THEN [slot \in ListedSlots(section) |-> ""]
    ELSE IF shape = "first"
        THEN [slot \in ListedSlots(section) |->
                IF slot = FirstSlot(section) THEN "some " \o slot ELSE ""]
    ELSE [slot \in ListedSlots(section) \cup {"notes"} |-> "some " \o slot]

ProfileOfShape(shape) ==
    LET present == {section \in SectionNames : shape[section] # "absent"} IN
    [keys |-> present, raw_text |-> "",
     sections |-> [section \in present |-> SectionOfShape(section, shape[section])],
     clarifiers |-> <<>>]

NoPayload == [student_profile |-> NoSections, emotion_signals |-> <<>>, user_said |-> <<>>]

\* lines 283-290: the payload of the backend call
BuildPayload(profile, signals) ==
    [student_profile |-> _build_profile_summary(profile),
     emotion_signals |-> signals,
     user_said |-> _extract_user_words(profile)]

\* the caller's mapping with "__raw_text__" taken out of it, as dict.pop
\* leaves it
ProfileAfterPop(profile) ==
    [profile EXCEPT !.keys = @ \ {"__raw_text__"}, !.raw_text = ""]

\* the caller's mapping after generate_popups has used it: truth test,
\* dict.get, indexing and iteration in _build_profile_summary and
\* _extract_user_words, argument of validate_popup_message; no statement
\* assigns into it or into one of its sections
ProfileAfterCall(profile) == profile

(***************************************************************************)
(* popup_schemas.Popup and popup_validator.validate_popup_message are not  *)
(* among the source files; they follow sections 3, 4.1 and 4.3 of the      *)
(* specification.                                                          *)
(***************************************************************************)
AllowedTypes ==
    {"distraction", "self_doubt", "panic", "pressure", "comparison", "guilt", "fear",
     "system_warning", "motivation", "parental_pressure"}

\* Popup.model_validate on a candidate whose message is a str and ttl an int
SchemaAccepts(popup_type, message, ttl) == popup_type \in AllowedTypes

ClaimVocabulary ==
    {"hate", "cant", "unable", "impossible", "no", "never", "always", "distracted",
     "scrolling", "gaming", "reels", "youtube", "tired", "burnout", "burnt", "lazy",
     "dumb", "stupid", "bad", "pressure", "anxious", "anxiety", "panic", "scared",
     "fear", "stress", "stressed", "alone", "lonely", "overwhelmed", "busy", "avoid",
     "avoidance"}

Stopwords ==
    {"how", "what", "when", "where", "why", "many", "much", "often", "time", "hours",
     "do", "you", "your", "feel", "this", "that", "there", "here", "them", "they",
     "with", "from", "have", "has", "had"}

AlnumChars ==
    {"a", "b", "c", "d", "e", "f", "g", "h", "i", "j", "k", "l", "m", "n", "o", "p", "q",
     "r", "s", "t", "u", "v", "w", "x", "y", "z", "0", "1", "2", "3", "4", "5", "6", "7",
     "8", "9"}

RECURSIVE FirstSpace(_, _)
FirstSpace(s, i) ==
    IF i > Len(s) THEN i
    ELSE IF IsSpace(Char(s, i)) THEN i ELSE FirstSpace(s, i + 1)

\* str.split(): the words of s from position i on
RECURSIVE SplitFrom(_, _)
SplitFrom(s, i) ==
    LET start == FirstNonSpace(s, i) IN
    IF start > Len(s) THEN <<>>
    ELSE LET end == FirstSpace(s, start) IN
         <<SubSeq(s, start, end - 1)>> \o SplitFrom(s, end)

Split(s) == SplitFrom(s, 1)

RECURSIVE KeepAlnum(_, _)
KeepAlnum(s, i) ==
    IF i > Len(s) THEN ""
    ELSE (IF Char(s, i) \in AlnumChars THEN Char(s, i) ELSE "") \o KeepAlnum(s, i + 1)

\* lowercased tokens of a text with the non-alphanumerics stripped
Tokens(text) == {KeepAlnum(w, 1) : w \in Range(Split(Lower(text)))} \ {""}

extractAnchors(text) ==
    {t \in Tokens(text) : (Len(t) >= 4 \/ t \in ClaimVocabulary) /\ t \notin Stopwords}

extractClaims(text) == Tokens(text) \cap ClaimVocabulary

requiresOverlap(candidateText, userText) ==
    LET lowered == Lower(candidateText)
        anchors == extractAnchors(userText)
        claims == extractClaims(userText)
    IN  /\ Cardinality(anchors) >= 2
            => Cardinality({a \in anchors : Contains(lowered, a)}) >= 2
        /\ claims # {} => \E c \in claims : Contains(lowered, c)

BannedPhrases == {"please calm down"}

validate_popup_message(message, profile) ==
    /\ \A b \in BannedPhrases : ~Contains(Lower(message), b)
    /\ requiresOverlap(message, profile.raw_text)

(***************************************************************************)
(* Backend responses.  A candidate popup is a JSON value: a dict with a    *)
(* type, a message (a string, absent/null, or another JSON value) and a    *)
(* ttl (an int, absent, null, a numeric string or another string), or a    *)
(* value that is not a dict.                                               *)
(***************************************************************************)
Str(text) == [kind |-> "str", v |-> text]
NoMessage == [kind |-> "none", v |-> ""]
OtherMessage == [kind |-> "other", v |-> ""]
IntTtl(n) == [kind |-> "int", v |-> n]
NumStrTtl(n) == [kind |-> "numstr", v |-> n]
MissingTtl == [kind |-> "missing", v |-> 0]
NullTtl == [kind |-> "null", v |-> 0]
BadStrTtl == [kind |-> "badstr", v |-> 0]

Cand(popup_type, message, rawTtl) ==
    [dict |-> TRUE, type |-> popup_type, message |-> message, ttl |-> rawTtl]

NotADict == [dict |-> FALSE, type |-> "", message |-> NoMessage, ttl |-> MissingTtl]

LowerDupCand ==
    Cand("self_doubt", Str(Lower(FALLBACK_TEMPLATES["self_doubt"])), MissingTtl)
HighTtlCand == Cand("fear", Str("  You HATE friends who win  "), IntTtl(12000))
LowTtlCand == Cand("panic", Str("you hate friends who win"), NumStrTtl(5000))
BannedCand == Cand("guilt", Str("Please calm down, hate friends later"), IntTtl(7000))
NullTtlCand == Cand("fear", Str("Friends you hate are ahead"), NullTtl)
NonStrMessageCand == Cand("fear", OtherMessage, IntTtl(8000))
UnknownTypeCand == Cand("sarcasm", Str("You hate friends who WIN"), IntTtl(9000))

SpecialCands ==
    {LowerDupCand, HighTtlCand, LowTtlCand, BannedCand, NullTtlCand, NonStrMessageCand,
     UnknownTypeCand, NotADict}

\* a response with one candidate that is accepted and one whose message
\* holds a banned phrase
OneValidOneBanned ==
    [kind |-> "object", specials |-> <<HighTtlCand, BannedCand>>, bulk |-> 0,
     questions |-> <<>>]

\* k distinct well-formed candidates
Bulk(k) ==
    [i \in 1..k |-> Cand("fear", Str("hate friends lose again " \o ToString(i)), IntTtl(8000))]

NumTemplates == Cardinality(TemplateTypes)

\* none; around what the templates can fill up to the minimum; the minimum;
\* around the limit
BulkSizes ==
    {0, Minimum - NumTemplates - 1, Minimum - NumTemplates, Minimum - NumTemplates + 1,
     Minimum, Limit, Limit + 1}

\* A response is the kind of thing the call produced; for a JSON object,
\* its popups list is the specials followed by bulk well-formed candidates,
\* its questions list is questions.
Failure(kind) == [kind |-> kind, specials |-> <<>>, bulk |-> 0, questions |-> <<>>]

PopupsOf(r) == r.specials \o Bulk(r.bulk)

\* what a chat_json call of generate_popups can produce while the backend is up
UpPopupResponses ==
    {Failure("transient"), Failure("notjson"), Failure("nonobject"), Failure("nonlist")}
    \cup {[kind |-> "object", specials |-> p, bulk |-> k, questions |-> <<>>] :
            p \in SeqsUpTo(SpecialCands, MaxSpecials), k \in BulkSizes}

PopupResponses(mode) ==
    CASE mode = "auth_fail" -> {Failure("fatal")}
      [] mode = "net_down"  -> {Failure("transient")}
      [] OTHER -> UpPopupResponses

BackendModes == {"up", "auth_fail", "net_down"}

(***************************************************************************)
(* popup_generator.py: generate_popups                                     *)
(***************************************************************************)
TtlDefault == 8000
TtlLo == 6000
TtlHi == 10000
MinWords == 5
MaxWords == 12

Max(a, b) == IF a > b THEN a ELSE b
Min(a, b) == IF a < b THEN a ELSE b

\* the clamp without its upper bound
ClampTtlNoUpper(ttl) == Max(TtlLo, ttl)

\* "max(6000, min(10000, popup['ttl']))"
ClampTtl(ttl) == Max(TtlLo, Min(TtlHi, ttl))

\* "int(popup.get('ttl', 8000))" raises TypeError on null, ValueError on a
\* string that is no number
TtlRaises(rawTtl) == rawTtl.kind \in {"null", "badstr"}
TtlInt(rawTtl) == IF rawTtl.kind = "missing" THEN TtlDefault ELSE rawTtl.v

\* "msg.lower()", the dedup key of the candidate loop
DedupKeyOf(msg) == Lower(msg)

\* what the candidate loop computes from the text of one message
MessageFacts(text, profile) ==
    LET msg == Strip(text) IN
    [msg     |-> msg,
     newline |-> Contains(msg, "\n"),
     words   |-> Len(Split(msg)),
     lowered |-> DedupKeyOf(msg),
     passes  |-> validate_popup_message(msg, profile)]

CandidateTexts ==
    {c.message.v : c \in SpecialCands} \cup {c.message.v : c \in Range(Bulk(Limit + 1))}

\* MessageFacts of every text a candidate can carry, computed once
FactsTable == [profile \in Profiles \ {EmptyProfile} |-> [text \in CandidateTexts |->
                MessageFacts(text, profile)]]

\* "if msg.lower() in seen: continue"
DuplicateMessage(lowered, seenMsgs) == lowered \in seenMsgs

\* the body of "for popup in popups" on one candidate; acc is
\* [valid, seen, raised, chain], chain being the checks an appended candidate
\* has gone through, in the order the body makes them
StepCandidate(acc, popup, profile) ==
    IF ~popup.dict THEN acc
    ELSE IF popup.message.kind = "other" THEN [acc EXCEPT !.raised = TRUE]
    ELSE LET f == FactsTable[profile][popup.message.v] IN
        IF f.newline THEN acc
        ELSE IF ~(MinWords <= f.words /\ f.words <= MaxWords) THEN acc
        ELSE LET structural == <<"structural">> IN
        IF DuplicateMessage(f.lowered, acc.seen) THEN acc
        ELSE LET acc1 == [acc EXCEPT !.seen = @ \cup {f.lowered}] IN
            IF TtlRaises(popup.ttl) THEN [acc1 EXCEPT !.raised = TRUE]
            ELSE LET ttl == ClampTtl(TtlInt(popup.ttl)) IN
                IF ~SchemaAccepts(popup.type, f.msg, ttl) THEN acc1
                ELSE LET schema == Append(structural, "schema") IN
                IF ~f.passes THEN acc1
                ELSE [acc1 EXCEPT
                        !.valid = Append(@, [type |-> popup.type, message |-> f.msg,
                                             ttl |-> ttl]),
                        !.chain = Append(schema, "overlap")]

NoneWalked == [valid |-> <<>>, seen |-> {}, raised |-> FALSE, chain |-> <<>>]

RECURSIVE WalkPopups(_, _, _, _)
WalkPopups(popups, i, acc, profile) ==
    IF i > Len(popups) \/ acc.raised THEN acc
    ELSE WalkPopups(popups, i + 1, StepCandidate(acc, popups[i], profile), profile)

\* the candidates of a response that the loop body appends when it meets
\* them first
PassingAlone(popups, profile) ==
    UNION {Range(StepCandidate(NoneWalked, popups[i], profile).valid) : i \in 1..Len(popups)}

\* how the body of one attempt ends on response r:
\*   "fatal", "transient"  chat_json raised
\*   "parse"               json.loads raised JSONDecodeError
\*   "shape"               the JSON value is no object: data.get raised
\*                         AttributeError
\*   "error"               another exception (popups is not iterable, a
\*                         candidate raised)
\*   "empty", "accepted"   the candidates were walked
\* start is what valid_popups and seen hold when the candidates are walked;
\* reset tells whether lines 310-311 were reached, seen is the seen set then
AttemptOutcomeFrom(start, r, profile) ==
    LET Ended(tag) == [tag |-> tag, valid |-> <<>>, passing |-> {}, chain |-> <<>>,
                       reset |-> FALSE, seen |-> {}]
    IN
    IF r.kind \in {"fatal", "transient"} THEN Ended(r.kind)
    ELSE IF r.kind = "notjson" THEN Ended("parse")
    ELSE IF r.kind = "nonobject" THEN Ended("shape")
    ELSE IF r.kind = "nonlist" THEN [Ended("error") EXCEPT !.reset = TRUE, !.seen = start.seen]
    ELSE LET acc == WalkPopups(PopupsOf(r), 1, start, profile)
             alone == PassingAlone(PopupsOf(r), profile)
         IN  IF acc.raised
                THEN [Ended("error") EXCEPT !.passing = alone, !.reset = TRUE,
                                            !.seen = acc.seen]
             ELSE IF acc.valid = <<>>
                THEN [Ended("empty") EXCEPT !.passing = alone, !.reset = TRUE,
                                            !.seen = acc.seen]
             ELSE [tag |-> "accepted", valid |-> acc.valid, passing |-> alone,
                   chain |-> acc.chain, reset |-> TRUE, seen |-> acc.seen]

AttemptOutcome(r, profile) == AttemptOutcomeFrom(NoneWalked, r, profile)

\* the ways one attempt can end, for every non-empty profile and backend
\* state, computed once
PossibleOutcomes ==
    [profile \in Profiles \ {EmptyProfile} |-> [mode \in BackendModes |->
        {AttemptOutcome(r, profile) : r \in PopupResponses(mode)}]]

\* valid_popups and seen of the attempt before kept
CarryOver(prevValid, prevSeen) == [NoneWalked EXCEPT !.valid = prevValid, !.seen = prevSeen]

\* lines 310-311: "valid_popups = []" and "seen = set()", whatever the two
\* names held before
AttemptStart(prevValid, prevSeen) == NoneWalked

\* the ways an attempt can end when its walk starts from start
OutcomesFrom(start, profile, responses, table) ==
    IF start = NoneWalked THEN table
    ELSE {AttemptOutcomeFrom(start, r, profile) : r \in responses}

\* "except Exception: ... break" as against "except (json.JSONDecodeError,
\* ValidationError)", which falls through to the next attempt
Breaks(tag) == tag \in {"fatal", "transient", "shape", "error"}

LastAttempt == 2

\* the seen set generate_popups hands to _ensure_minimum_popups
SeenOfValid(popups) == {<<popups[i].type, popups[i].message>> : i \in 1..Len(popups)}

\* the test of the profile left out
NeverEmpty(profile) == FALSE

\* "if not stress_profile": an empty mapping, or None
ProfileIsEmpty(profile) == profile.keys = {}

\* generate_popups up to the first backend call
GeneratePopupsCall ==
    /\ pc = "idle"
    /\ \E profile \in Profiles, signals \in SignalLists, mode \in BackendModes :
        /\ op' = "popups"
        /\ profile0' = profile
        /\ stress_profile' = ProfileAfterCall(profile)
        /\ payload' = IF ProfileIsEmpty(profile) THEN NoPayload
                       ELSE BuildPayload(profile, signals)
        /\ emotion_signals' = signals
        /\ backend' = mode
        /\ IF ProfileIsEmpty(profile)
            THEN /\ result' = <<>>
                 /\ pc' = "done"
                 /\ UNCHANGED attempt
            ELSE /\ pc' = "attempt"
                 /\ attempt' = 1
                 /\ UNCHANGED result
    /\ UNCHANGED <<request, emissions, dedup, preempted, other, calls, outcomes, valid_popups, caller, count, seen, seen0, sequence,
                   idx, created, user_text, num_questions, slot_target, exc,
                   valid_questions, earlier, question, passing, chain>>

\* one pass of "for attempt in (1, 2)" that ends in one of outs, and what
\* follows it
AttemptStep(outs) ==
    /\ \E out \in outs :
        /\ calls' = calls + 1
        /\ outcomes' = Append(outcomes, out.tag)
        /\ valid_popups' = out.valid
        /\ passing' = out.passing
        /\ chain' = out.chain
        /\ IF out.tag = "accepted"
            THEN \* _ensure_minimum_popups
                 IF Len(out.valid) < Minimum
                    THEN /\ StartFallback("ensure", Minimum - Len(out.valid),
                                          SeenOfValid(out.valid), emotion_signals)
                         /\ dedup' = {}
                         /\ UNCHANGED <<attempt, result>>
                    ELSE /\ result' = Take(out.valid, Limit)
                         /\ pc' = "done"
                         /\ dedup' = {}
                         /\ UNCHANGED <<attempt, caller, count, seen, seen0, sequence,
                                        idx, created>>
            ELSE IF ~Breaks(out.tag) /\ attempt < LastAttempt
                    THEN /\ attempt' = attempt + 1
                         /\ dedup' = IF out.reset THEN out.seen ELSE dedup
                         /\ UNCHANGED <<pc, result, caller, count, seen, seen0, sequence,
                                        idx, created>>
                    ELSE /\ StartFallback("final", FinalCount, {}, emotion_signals)
                         /\ dedup' = {}
                         /\ UNCHANGED <<attempt, result>>
    /\ UNCHANGED <<request, emissions, preempted, other, op, backend, stress_profile,
                   emotion_signals, user_text, num_questions, slot_target, exc,
                   valid_questions, earlier, question, profile0, payload>>

\* an attempt of generate_popups with any response of the backend
PopupAttempt ==
    /\ pc = "attempt"
    /\ op = "popups"
    /\ AttemptStep(OutcomesFrom(AttemptStart(valid_popups, dedup), stress_profile,
                                PopupResponses(backend),
                                PossibleOutcomes[stress_profile][backend]))

(***************************************************************************)
(* Two invocations of generate_popups in two threads.  The running one is  *)
(* in the variables, the suspended one in other; the interpreter may       *)
(* switch threads between any two steps.  Every name generate_popups and   *)
(* _fallback_popups assign is a local of the invocation; the module-level  *)
(* FALLBACK_TEMPLATES is never assigned, and the backend is one for both.  *)
(***************************************************************************)
CurrentLocals ==
    [op |-> op, pc |-> pc, stress_profile |-> stress_profile,
     emotion_signals |-> emotion_signals, attempt |-> attempt, calls |-> calls,
     outcomes |-> outcomes, valid_popups |-> valid_popups, dedup |-> dedup,
     caller |-> caller, count |-> count, seen |-> seen, seen0 |-> seen0,
     sequence |-> sequence, idx |-> idx, created |-> created, result |-> result,
     exc |-> exc, profile0 |-> profile0, payload |-> payload, passing |-> passing,
     chain |-> chain, preempted |-> preempted]

\* an invocation that has not been made yet
NoInvocation ==
    [op |-> "idle", pc |-> "idle", stress_profile |-> EmptyProfile,
     emotion_signals |-> <<>>, attempt |-> 0, calls |-> 0,
     outcomes |-> <<>>, valid_popups |-> <<>>, dedup |-> {},
     caller |-> "", count |-> 0, seen |-> {}, seen0 |-> {},
     sequence |-> <<>>, idx |-> 0, created |-> <<>>, result |-> <<>>,
     exc |-> "", profile0 |-> EmptyProfile, payload |-> NoPayload, passing |-> {},
     chain |-> <<>>, preempted |-> FALSE]

\* the running thread is suspended and the other one runs on
ContextSwitch ==
    /\ other.pc # "done"
    /\ other' = [CurrentLocals EXCEPT !.preempted = @ \/ pc \notin {"idle", "done"}]
    /\ op' = other.op
    /\ pc' = other.pc
    /\ stress_profile' = other.stress_profile
    /\ emotion_signals' = other.emotion_signals
    /\ attempt' = other.attempt
    /\ calls' = other.calls
    /\ outcomes' = other.outcomes
    /\ valid_popups' = other.valid_popups
    /\ dedup' = other.dedup
    /\ caller' = other.caller
    /\ count' = other.count
    /\ seen' = other.seen
    /\ seen0' = other.seen0
    /\ sequence' = other.sequence
    /\ idx' = other.idx
    /\ created' = other.created
    /\ result' = other.result
    /\ exc' = other.exc
    /\ profile0' = other.profile0
    /\ payload' = other.payload
    /\ passing' = other.passing
    /\ chain' = other.chain
    /\ preempted' = other.preempted
    /\ UNCHANGED <<backend, user_text, num_questions, slot_target, valid_questions,
                   earlier, question, request, emissions>>

PairProfiles == {PlainProfile}

PairSignals == {<<>>, <<"panic">>}

\* what the backend answers the two invocations
PairResponses ==
    {Failure("notjson"), Failure("transient"),
     [kind |-> "object", specials |-> <<UnknownTypeCand>>, bulk |-> 0, questions |-> <<>>],
     [kind |-> "object", specials |-> <<HighTtlCand>>, bulk |-> Minimum - NumTemplates,
      questions |-> <<>>],
     [kind |-> "object", specials |-> <<>>, bulk |-> Minimum - NumTemplates,
      questions |-> <<>>],
     [kind |-> "object", specials |-> <<>>, bulk |-> Minimum, questions |-> <<>>]}

\* the ways an attempt of one of the two can end, computed once
PairOutcomes ==
    [profile \in PairProfiles |-> {AttemptOutcome(r, profile) : r \in PairResponses}]

\* generate_popups called in the running thread
PairCall ==
    /\ GeneratePopupsCall
    /\ stress_profile' \in PairProfiles
    /\ emotion_signals' \in PairSignals
    /\ backend' = "up"

\* an attempt of the running invocation
PairAttempt ==
    /\ pc = "attempt"
    /\ op = "popups"
    /\ AttemptStep(OutcomesFrom(AttemptStart(valid_popups, dedup), stress_profile,
                                PairResponses, PairOutcomes[stress_profile]))

PairNext ==
    \/ PairCall
    \/ PairAttempt
    \/ FallbackIterate
    \/ FallbackReturn
    \/ ContextSwitch

\* _build_profile_summary applied to a profile on its own
\* the profiles _build_profile_summary is called on
ShapedProfiles == {ProfileOfShape(shape) : shape \in [SectionNames -> SectionShapes]}

\* _build_profile_summary of each of them, computed once
SummaryTable == [profile \in ShapedProfiles |-> _build_profile_summary(profile)] @@ <<>>

BuildProfileSummaryCall ==
    /\ pc = "idle"
    /\ op' = "summary"
    /\ pc' = "done"
    /\ stress_profile' \in ShapedProfiles
    /\ profile0' = stress_profile'
    /\ payload' = [NoPayload EXCEPT !.student_profile = SummaryTable[stress_profile']]
    /\ UNCHANGED <<request, emissions, dedup, preempted, other, backend, emotion_signals, attempt, calls, outcomes, valid_popups,
                   caller, count, seen, seen0, sequence, idx, created, user_text,
                   num_questions, slot_target, result, exc, valid_questions, earlier,
                   question, passing, chain>>

(***************************************************************************)
(* question_generator.py: generate_question                                *)
(***************************************************************************)
\* the replacement fields str.format finds in SYSTEM_PROMPT_SLOT_QUESTION:
\* {slot}, {domain} and, on its last line, {"question": "your challenging
\* question here"}, whose field name is "question" with its quotes
SlotPromptFields == {"slot", "domain", "\"question\""}

\* the keyword arguments of SYSTEM_PROMPT_SLOT_QUESTION.format(...)
FormatKeywords == {"domain", "slot"}

\* str.format raises KeyError on a named field it is given no argument for
FormatRaises(fields, keywords) == fields \ keywords # {}

SlotTargets ==
    {<<"distractions", "phone_app">>, <<"family_pressure", "family_member">>,
     <<"sleep", "bedtime">>}

\* generate_question: lines 263-270 run before the attempt loop, outside
\* any try block
GenerateQuestionCall ==
    /\ pc = "idle"
    /\ FormatRaises(SlotPromptFields, FormatKeywords)
    /\ \E target \in SlotTargets, mode \in BackendModes :
        /\ op' = "question"
        /\ slot_target' = target
        /\ backend' = mode
    /\ exc' = "KeyError"
    /\ pc' = "raised"
    /\ UNCHANGED <<request, emissions, dedup, preempted, other, stress_profile, emotion_signals, attempt, calls, outcomes,
                   valid_popups, caller, count, seen, seen0, sequence, idx, created,
                   user_text, num_questions, result,
                   valid_questions, earlier, question, profile0, payload, passing, chain>>

(***************************************************************************)
(* question_generator.py: generate_counter_questions                       *)
(***************************************************************************)
\* _extract_target
_extract_target(text) ==
    LET text_lower == Lower(text) IN
    IF Contains(text_lower, "friend") THEN "them"
    ELSE IF Contains(text_lower, "parent") \/ Contains(text_lower, "mom")
            \/ Contains(text_lower, "dad") THEN "them"
    ELSE IF Contains(text_lower, "teacher") THEN "them"
    ELSE IF Contains(text_lower, "myself") \/ Contains(text_lower, "i ") THEN "yourself"
    ELSE "them"

\* the if/elif chain of _generate_fallback_counter_questions, in order
FallbackRules(text) == <<
    [words |-> {"hate", "can't stand", "despise"},
     questions |-> <<
        "If you truly hated " \o _extract_target(text)
            \o ", why haven't you cut them off completely?",
        "Can you think of even one good moment with " \o _extract_target(text)
            \o " - does that fit with 'hate'?",
        "Is it actual hate, or disappointment that " \o _extract_target(text)
            \o " didn't meet your expectations?">>],
    [words |-> {"can't", "cannot", "unable", "impossible"},
     questions |-> <<
        "Is it truly 'can't', or is it 'won't' because it's uncomfortable?",
        "What would change if you admitted you're choosing not to, rather than unable to?",
        "If someone offered you Rs 10 lakh to do it, would 'can't' suddenly become 'can'?">>],
    [words |-> {"stressed", "stress", "anxious", "anxiety"},
     questions |-> <<
        "If the thing stressing you disappeared tomorrow, would you feel peace or just find something new to stress about?",
        "Is the stress about the situation, or about what failure would say about you?",
        "What's the actual worst-case scenario - and have you prepared for it at all?">>],
    [words |-> {"distracted", "focus", "concentrate"},
     questions |-> <<
        "Do you lose focus on everything, or just on things you find boring?",
        "If your favorite game required the same focus as studying, would you still have this problem?",
        "Is it a focus problem, or a motivation problem you're calling 'focus'?">>],
    [words |-> {"lazy", "procrastinat"},
     questions |-> <<
        "Are you lazy about everything, or just things that don't excite you?",
        "What would it mean if 'lazy' was actually 'scared of not being good enough'?",
        "If laziness is the problem, why do you have energy for things you enjoy?">>],
    [words |-> {"don't understand", "doesn't understand", "no one understands"},
     questions |-> <<
        "Have you explained yourself in their language, or just expected them to decode yours?",
        "Is it that they don't understand, or that they understand but disagree?",
        "What if they understand perfectly but just don't give you the response you want?">>],
    [words |-> {"pressure", "expect", "expectation"},
     questions |-> <<
        "Is the pressure from them, or from your own fear of disappointing them?",
        "If they expected nothing from you, would that feel like freedom or abandonment?",
        "What would happen if you just... didn't meet their expectations?">>],
    [words |-> {"fail", "failing", "failure"},
     questions |-> <<
        "Is failing the actual fear, or is it what people will think of you after?",
        "If no one ever found out about the failure, would it still hurt as much?",
        "What's one thing you've failed at before that turned out fine eventually?">>],
    [words |-> {"friend", "friends"},
     questions |-> <<
        "Are they actually bad friends, or just not the friends you wish they were?",
        "What would you lose if you stopped being their friend tomorrow?",
        "Is the problem them, or that you keep choosing the same type of people?">>] >>

GenericCounterQuestions == <<
    "What would it mean if the opposite of what you just said was actually true?",
    "Are you describing the situation accurately, or how it feels in this moment?",
    "What are you avoiding admitting to yourself right now?">>

\* two generic questions, whatever the text says
GenericPair(text) == Take(GenericCounterQuestions, 2)

_generate_fallback_counter_questions(text) ==
    LET lowered == Lower(text)
        rules == FallbackRules(text)
        hits == {i \in 1..Len(rules) : \E w \in rules[i].words : Contains(lowered, w)}
    IN  IF hits = {} THEN GenericCounterQuestions
        ELSE rules[CHOOSE i \in hits : \A j \in hits : i <= j].questions

\* " ".join(words)
RECURSIVE Join(_, _)
Join(words, i) ==
    IF i > Len(words) THEN ""
    ELSE IF i = Len(words) THEN words[i]
    ELSE words[i] \o " " \o Join(words, i + 1)

MinQuestionLen == 10
MaxQuestionLen == 200

\* the filter of "for q in questions"; q is [kind, v] as a message is
RECURSIVE ValidQuestions(_, _)
ValidQuestions(questions, i) ==
    IF i > Len(questions) THEN <<>>
    ELSE LET q == questions[i]
             q_clean == Join(Split(Strip(q.v)), 1)
             keep == /\ q.kind = "str"
                     /\ EndsWith(q_clean, "?")
                     /\ MinQuestionLen <= Len(q_clean)
                     /\ Len(q_clean) <= MaxQuestionLen
         IN  (IF keep THEN <<q_clean>> ELSE <<>>) \o ValidQuestions(questions, i + 1)

QuestionCands ==
    {Str("  Is it really   hate, or just hurt? "), Str("Why?"),
     Str("Tell me more about your friends"), OtherMessage}

\* what the single chat_json call of generate_counter_questions can produce
UpQuestionResponses ==
    {Failure("transient"), Failure("notjson"), Failure("nonobject"), Failure("nonlist")}
    \cup {[kind |-> "object", specials |-> <<>>, bulk |-> 0, questions |-> q] :
            q \in SeqsUpTo(QuestionCands, MaxQuestions)}

QuestionResponses(mode) ==
    CASE mode = "auth_fail" -> {Failure("fatal")}
      [] mode = "net_down"  -> {Failure("transient")}
      [] OTHER -> UpQuestionResponses

\* ValidQuestions of every questions list, computed once
ValidTable == [q \in SeqsUpTo(QuestionCands, MaxQuestions) |-> ValidQuestions(q, 1)]

UserTexts == {"", "  ", " I hate my friends ", "I can't focus", "so much on my plate"}

\* _generate_fallback_counter_questions of every stripped text, computed once
FallbackTable ==
    [text \in {Strip(raw) : raw \in UserTexts} |->
        _generate_fallback_counter_questions(text)]

\* generate_counter_questions up to the backend call
GenerateCounterQuestionsCall ==
    /\ pc = "idle"
    /\ \E raw \in UserTexts, n \in 0..MaxAsk, mode \in BackendModes :
        /\ op' = "counter"
        /\ user_text' = Strip(raw)
        /\ num_questions' = n
        /\ backend' = mode
        /\ IF Strip(raw) = ""
            THEN /\ result' = <<>>
                 /\ pc' = "done"
            ELSE /\ pc' = "attempt"
                 /\ UNCHANGED result
    /\ UNCHANGED <<request, emissions, dedup, preempted, other, stress_profile, emotion_signals, attempt, calls, outcomes,
                   valid_popups, caller, count, seen, seen0, sequence, idx, created,
                   slot_target, exc,
                   valid_questions, earlier, question, profile0, payload, passing, chain>>

\* the try block of generate_counter_questions and the fallback after it:
\* every exception is caught by "except Exception"
CounterAttempt ==
    /\ pc = "attempt"
    /\ op = "counter"
    /\ \E r \in QuestionResponses(backend) :
        LET ValidOnes ==
                IF r.kind = "object" THEN ValidTable[r.questions] ELSE <<>>
        IN  /\ calls' = calls + 1
            /\ valid_questions' = ValidOnes
            /\ outcomes' = Append(outcomes,
                    IF r.kind \in {"fatal", "transient"} THEN r.kind
                    ELSE IF r.kind = "notjson" THEN "parse"
                    ELSE IF r.kind # "object" THEN "error"
                    ELSE IF ValidOnes = <<>> THEN "empty" ELSE "accepted")
            /\ result' = IF ValidOnes # <<>>
                            THEN Take(ValidOnes, num_questions)
                            ELSE Take(FallbackTable[user_text], num_questions)
    /\ pc' = "done"
    /\ UNCHANGED <<request, emissions, dedup, preempted, other, op, backend, stress_profile, emotion_signals, attempt, valid_popups,
                   caller, count, seen, seen0, sequence, idx, created, user_text,
                   num_questions, slot_target, exc,
                   earlier, question, profile0, payload, passing, chain>>

(***************************************************************************)
(* socket_events.py: on_suggest_request                                    *)
(***************************************************************************)
MinTextLen == 4
MaxSuggestions == 4
SuggestionMaxLen == 200
BankLimit == 4

\* the keyword groups of _generate_local_suggestions, in the order of the code
SuggestionBank == <<
    [words |-> {"exam", "test", "paper", "deadline", "time"},
     msgs |-> <<"Exams are close and I feel I have too little time to revise properly.",
                "My mock tests are inconsistent and it's stressing me out.">>],
    [words |-> {"phone", "scroll", "reel", "shorts", "game", "gaming"},
     msgs |-> <<"I keep picking up my phone and losing hours on reels.",
                "Gaming sessions at night are killing my sleep and study rhythm.">>],
    [words |-> {"parent", "mom", "dad", "family"},
     msgs |-> <<"My parents expect a top score and I'm scared to disappoint them.">>],
    [words |-> {"compare", "friend", "topper", "rank"},
     msgs |-> <<"I keep comparing myself with friends and feel I'm always behind.">>],
    [words |-> {"motivation", "burnout", "tired", "drained"},
     msgs |-> <<"I'm feeling burnt out and it's hard to stay motivated.">>],
    [words |-> {"backlog", "pending", "syllabus", "left"},
     msgs |-> <<"There's a backlog of chapters piling up and I don't know where to start.">>] >>

GenericSuggestions == <<
    "I'm overwhelmed and not sure how to manage everything right now.",
    "I feel stuck and need a clear plan to get back on track.">>

\* add(*msgs): the messages from the i-th on that the bank does not hold yet
RECURSIVE add(_, _, _)
add(bank, msgs, i) ==
    IF i > Len(msgs) THEN bank
    ELSE add(IF msgs[i] \in Range(bank) THEN bank ELSE Append(bank, msgs[i]), msgs, i + 1)

\* the bank after the keyword groups from the i-th on
RECURSIVE BankFrom(_, _, _)
BankFrom(text, i, bank) ==
    IF i > Len(SuggestionBank) THEN bank
    ELSE BankFrom(text, i + 1,
            IF \E word \in SuggestionBank[i].words : Contains(text, word)
                THEN add(bank, SuggestionBank[i].msgs, 1)
                ELSE bank)

_generate_local_suggestions(text) ==
    LET bank == BankFrom(text, 1, <<>>) IN
    Take(IF bank = <<>> THEN add(bank, GenericSuggestions, 1) ELSE bank, BankLimit)

\* the loop of _generate_ai_suggestions over the suggestions list
RECURSIVE AiOut(_, _, _)
AiOut(suggestions, i, out) ==
    IF i > Len(suggestions) THEN out
    ELSE LET item == suggestions[i]
             cleaned == Strip(item.v)
             next == IF item.kind = "str" /\ cleaned # ""
                        THEN Append(out, Take(cleaned, SuggestionMaxLen))
                        ELSE out
         IN  IF Len(next) >= MaxSuggestions THEN next
             ELSE AiOut(suggestions, i + 1, next)

\* _generate_ai_suggestions on what chat_text produced: an exception of the
\* call or of json.loads is marked "raised"
_generate_ai_suggestions(r) ==
    IF r.kind \in {"fatal", "transient", "notjson"} THEN [raised |-> TRUE, out |-> <<>>]
    ELSE IF r.kind \in {"nonobject", "nonlist"} THEN [raised |-> FALSE, out |-> <<>>]
    ELSE [raised |-> FALSE, out |-> AiOut(r.questions, 1, <<>>)]

SuggestionItems == {Str("  I feel stuck before every test.  "), Str("   "), OtherMessage}

\* what the chat_text call can produce while the backend is up; the
\* suggestions list of a JSON object is under questions
UpSuggestResponses ==
    {Failure("transient"), Failure("notjson"), Failure("nonobject"), Failure("nonlist")}
    \cup {[kind |-> "object", specials |-> <<>>, bulk |-> 0, questions |-> q] :
            q \in SeqsUpTo(SuggestionItems, MaxItems)}

SuggestResponses(mode) ==
    CASE mode = "auth_fail" -> {Failure("fatal")}
      [] mode = "net_down"  -> {Failure("transient")}
      [] OTHER -> UpSuggestResponses

\* the data of a suggest_request event: nothing, a mapping without "text",
\* a mapping whose "text" is null, a string or a number, or a bare string
EventData ==
    {[kind |-> "none", text |-> NoMessage],
     [kind |-> "dict", text |-> [kind |-> "missing", v |-> ""]],
     [kind |-> "dict", text |-> NoMessage],
     [kind |-> "dict", text |-> OtherMessage],
     [kind |-> "string", text |-> NoMessage]}
    \cup {[kind |-> "dict", text |-> Str(t)] :
            t \in {"", " ab  ", "exam", "abcd", " My PHONE and exam, dad, rank ",
                   "so tired, syllabus left"}}

Sids == {"sid-a", "sid-b"}

NoRequest == [sid |-> "", data |-> [kind |-> "none", text |-> NoMessage]]

Emission(sid, items) == [event |-> "suggestions", to |-> sid, items |-> items]

\* on_suggest_request up to the backend call: lines 34-41. data.get on a
\* string and text.strip on a number raise AttributeError
\* lines 34-35 on each data, computed once: whether they raise, and cleaned
CleanedTable ==
    [data \in EventData |->
        LET text == IF data.kind = "none" \/ data.text.kind \in {"missing", "none"}
                        THEN Str("") ELSE data.text
            raises == data.kind = "string" \/ text.kind # "str"
        IN  [raises |-> raises, cleaned |-> IF raises THEN "" ELSE Strip(text.v)]] @@ <<>>

\* _generate_local_suggestions(cleaned.lower()) of each cleaned text,
\* computed once
LocalTable ==
    [cleaned \in {CleanedTable[data].cleaned : data \in EventData} |->
        _generate_local_suggestions(Lower(cleaned))] @@ <<>>

OnSuggestRequest ==
    /\ pc = "idle"
    /\ \E sid \in Sids, data \in EventData, mode \in BackendModes :
        LET raises == CleanedTable[data].raises
            cleaned == CleanedTable[data].cleaned
        IN  /\ op' = "suggest"
            /\ request' = [sid |-> sid, data |-> data]
            /\ backend' = mode
            /\ IF raises
                THEN /\ exc' = "AttributeError"
                     /\ pc' = "raised"
                     /\ UNCHANGED <<user_text, emissions>>
                ELSE /\ user_text' = cleaned
                     /\ exc' = ""
                     /\ IF Len(cleaned) < MinTextLen
                        THEN /\ emissions' = <<Emission(sid, <<>>)>>
                             /\ pc' = "done"
                        ELSE /\ pc' = "attempt"
                             /\ UNCHANGED emissions
    /\ UNCHANGED <<stress_profile, emotion_signals, attempt, calls, outcomes,
                   valid_popups, caller, count, seen, seen0, sequence, idx, created,
                   num_questions, slot_target, result, valid_questions, earlier,
                   question, profile0, payload, passing, chain, dedup, preempted, other>>

\* lines 43-49 on one response: the except clause leaves suggestions empty
SuggestOutcome(r) ==
    LET ai == _generate_ai_suggestions(r)
        suggestions == IF ai.raised THEN <<>> ELSE ai.out
    IN  [tag |-> IF ai.raised THEN "error"
                 ELSE IF suggestions = <<>> THEN "empty" ELSE "accepted",
         suggestions |-> suggestions]

\* the distinct outcomes of lines 43-49 in each backend mode
SuggestOutcomes ==
    [mode \in BackendModes |-> {SuggestOutcome(r) : r \in SuggestResponses(mode)}] @@ <<>>

\* on_suggest_request from the backend call on: lines 43-54
SuggestAttempt ==
    /\ pc = "attempt"
    /\ op = "suggest"
    /\ pc' = "done"
    /\ calls' = calls + 1
    /\ \E out \in SuggestOutcomes[backend] :
        /\ outcomes' = Append(outcomes, out.tag)
        /\ emissions' = Append(emissions, Emission(request.sid,
                IF out.suggestions = <<>>
                    THEN LocalTable[user_text]
                    ELSE out.suggestions))
    /\ UNCHANGED <<op, backend, stress_profile, emotion_signals, attempt, valid_popups,
                   caller, count, seen, seen0, sequence, idx, created, user_text,
                   num_questions, slot_target, result, exc, valid_questions, earlier,
                   question, profile0, payload, passing, chain, request, dedup,
                   preempted, other>>

(***************************************************************************)
(* validators.py: is_valid_question                                        *)
(***************************************************************************)
\* str.count of a one-character string
CountOf(s, c) == Cardinality({i \in 1..Len(s) : Char(s, i) = c})

\* lit occurs in s at position i between two \b word boundaries; lit starts
\* and ends with a word character
WordMatchAt(s, lit, i) ==
    LET j == i + Len(lit) - 1
        IsWord(k) == Char(s, k) \in AlnumChars \cup {"_"}
    IN  /\ i >= 1
        /\ j <= Len(s)
        /\ SubSeq(s, i, j) = lit
        /\ i = 1 \/ ~IsWord(i - 1)
        /\ j = Len(s) \/ ~IsWord(j + 1)

\* the texts the patterns of _BANNED match, each between \b and \b
_BANNED ==
    {"why", "therapy", "counselor", "counseling", "mental health", "diagnosis",
     "diagnose", "trauma", "depressed", "depression", "supportive", "support",
     "comforting", "comfort", "please", "thanks", "thank you", "kindly", "hope",
     "feel better", "you're not alone", "you are not alone", "i'm here for you",
     "i am here for you", "that sounds hard", "that sounds tough", "i understand",
     "care", "empathy", "empathize", "empathise", "gentle", "soft"}

\* re.search(r",\s*(and|also)\s+", lowered)
CommaJoin(lowered) ==
    \E i \in 1..Len(lowered) :
        /\ Char(lowered, i) = ","
        /\ LET j == FirstNonSpace(lowered, i + 1) IN
            \E w \in {"and", "also"} :
                /\ j + Len(w) <= Len(lowered)
                /\ SubSeq(lowered, j, j + Len(w) - 1) = w
                /\ IsSpace(Char(lowered, j + Len(w)))

\* re.search(r"\band\b.*\b(tell|share|explain|describe|mention)\b", lowered)
AndInstruction(lowered) ==
    \E i \in 1..Len(lowered) :
        /\ WordMatchAt(lowered, "and", i)
        /\ \E k \in (i + 3)..Len(lowered) :
            /\ ~Contains(SubSeq(lowered, i, k), "\n")
            /\ \E verb \in {"tell", "share", "explain", "describe", "mention"} :
                    WordMatchAt(lowered, verb, k)

MaxQuestionWords == 24

\* the test of the question mark with the count left out
EndsWithQuestionMark(q) == EndsWith(q, "?")

\* question.count("?") != 1 or not question.endswith("?")
QuestionMarkOk(q) == CountOf(q, "?") = 1 /\ EndsWith(q, "?")

is_valid_question(text) ==
    IF text = "" THEN FALSE
    ELSE LET q == Join(Split(Strip(text)), 1)
             lowered == Lower(q)
         IN  /\ QuestionMarkOk(q)
             /\ Len(Split(q)) <= MaxQuestionWords
             /\ \A lit \in _BANNED :
                    \A i \in 1..Len(lowered) : ~WordMatchAt(lowered, lit, i)
             /\ ~CommaJoin(lowered)
             /\ ~AndInstruction(lowered)
             /\ ~Contains(q, ";")
             /\ ~Contains(q, "/")

QuestionCores ==
    {"", "?", "Do you hate them?", "  Do you   hate them?  \n", "Do you hate them ?",
     "Do you? Or them?", "Do you hate them??", "Do you hate them", "Do you hate? them",
     "Why do you hate them?", "Do you hate them, and also me?",
     "Do you hate them and tell nobody?", "Is it them/you?",
     "Who cares about the software?"}

RECURSIVE Pad(_)
Pad(k) == IF k = 0 THEN "" ELSE "now " \o Pad(k - 1)

\* the texts is_valid_question is called with
QuestionTexts == {Pad(k) \o core : k \in 0..MaxPad, core \in QuestionCores}

\* a call is_valid_question(question)
IsValidQuestionCall ==
    /\ pc = "idle"
    /\ \E text \in QuestionTexts :
        /\ op' = "validate"
        /\ question' = text
        /\ result' = is_valid_question(text)
    /\ pc' = "done"
    /\ UNCHANGED <<request, emissions, dedup, preempted, other, backend, stress_profile, emotion_signals, attempt, calls, outcomes,
                   valid_popups, caller, count, seen, seen0, sequence, idx, created,
                   user_text, num_questions, slot_target, exc, valid_questions,
                   earlier, profile0, payload, passing, chain>>

(***************************************************************************)
(* The specification                                                       *)
(***************************************************************************)
Init ==
    /\ op = "idle"
    /\ pc = "idle"
    /\ backend = "up"
    /\ stress_profile = EmptyProfile
    /\ emotion_signals = <<>>
    /\ attempt = 0
    /\ calls = 0
    /\ outcomes = <<>>
    /\ valid_popups = <<>>
    /\ caller = ""
    /\ count = 0
    /\ seen = {}
    /\ seen0 = {}
    /\ sequence = <<>>
    /\ idx = 0
    /\ created = <<>>
    /\ user_text = ""
    /\ num_questions = 0
    /\ slot_target = <<"", "">>
    /\ result = <<>>
    /\ exc = ""
    /\ valid_questions = <<>>
    /\ earlier = <<>>
    /\ question = ""
    /\ profile0 = EmptyProfile
    /\ payload = NoPayload
    /\ passing = {}
    /\ chain = <<>>
    /\ request = NoRequest
    /\ emissions = <<>>
    /\ dedup = {}
    /\ preempted = FALSE
    /\ other = NoInvocation

Next ==
    \/ FallbackPopupsCall
    \/ FallbackIterate
    \/ FallbackReturn
    \/ FallbackPopupsAgain
    \/ GeneratePopupsCall
    \/ PopupAttempt
    \/ GenerateQuestionCall
    \/ GenerateCounterQuestionsCall
    \/ CounterAttempt
    \/ IsValidQuestionCall
    \/ BuildProfileSummaryCall
    \/ OnSuggestRequest
    \/ SuggestAttempt

Spec == Init /\ [][Next]_vars

\* two invocations of generate_popups, interleaved in any order
PairSpec == Init /\ [][PairNext]_vars

\* a called function keeps running: the interpreter takes its next step
FairSpec == Spec /\ WF_vars(Next)

(***************************************************************************)
(* Properties                                                              *)
(***************************************************************************)
PopupsReturned == op = "popups" /\ pc = "done"

\* the invocation is past its backend attempts
AttemptsOver == pc \in {"fb_loop", "done", "raised"}

\* the fallback popup of every template, as _fallback_popups builds it
FallbackPayloads == {FallbackPayload(t) : t \in TemplateTypes}

\* every message a returned popup can carry, with its lowercased form
ResultTexts ==
    {Strip(t) : t \in CandidateTexts} \cup {FALLBACK_TEMPLATES[t] : t \in TemplateTypes}

LoweredOf == [t \in ResultTexts |-> Lower(t)]

\* C1: generate_popups returns a list of at least
\* min(40, number of fallback templates) = 5 and at most 50 popups whatever
\* the signals and the backend do.  Stated for the non-empty profiles: for an
\* empty one the early return of the function gives the empty list.
C1_QuotaInvariant ==
    (op = "popups" /\ stress_profile.keys # {})
        ~> (/\ PopupsReturned
            /\ Len(result) >= Min(Minimum, NumTemplates)
            /\ Len(result) <= Limit)

\* C2: once every template's key is in the seen set while created is still
\* shorter than count, _fallback_popups leaves its loop instead of cycling.
C2_StopsWhenExhausted ==
    [][(/\ pc = "fb_loop"
        /\ LoopContinues(created, count)
        /\ TemplateKeys \subseteq seen) => pc' # "fb_loop"]_vars

\* C3: after malformed JSON on both attempts generate_popups eventually
\* returns at least the minimum number of popups, all of them fallback
\* popups whose type is a key of the template table.
C3_MalformedFallsBack ==
    (op = "popups" /\ outcomes = <<"parse", "parse">>)
        ~> (/\ PopupsReturned
            /\ Len(result) >= Minimum
            /\ \A i \in 1..Len(result) :
                    result[i] \in FallbackPayloads /\ result[i].type \in TemplateTypes)

\* C4: generate_question never raises and never returns an empty question.
C4_QuestionNeverFails ==
    op = "question" =>
        /\ pc # "raised"
        /\ exc = ""
        /\ pc = "done" => Len(result) > 0

\* C5: with the backend unavailable no entry point lets an exception escape.
C5_NoExceptionEscapes ==
    (op \in {"popups", "question", "counter"} /\ backend \in {"auth_fail", "net_down"})
        => exc = ""

\* C6: no two popups of a returned list share (type, lowercased message).
C6_NoDuplicateKeys ==
    PopupsReturned =>
        \A i, j \in 1..Len(result) :
            (/\ result[i].type = result[j].type
             /\ LoweredOf[result[i].message] = LoweredOf[result[j].message]) => i = j

\* C7: every returned popup, from the backend or from the fallback, has its
\* ttl within [6000, 10000].
C7_TtlBound ==
    PopupsReturned =>
        \A i \in 1..Len(result) : TtlLo <= result[i].ttl /\ result[i].ttl <= TtlHi

\* a returned list that holds the candidate sent with ttl 12000, the one sent
\* with ttl "5000" or none at all, and a fallback popup
C7_Witness ==
    /\ PopupsReturned
    /\ \E i \in 1..Len(result) :
            result[i].message = Strip(HighTtlCand.message.v) /\ result[i].ttl = TtlHi
    /\ \E i \in 1..Len(result) :
            result[i].message = LowerDupCand.message.v /\ result[i].ttl = TtlDefault
    /\ \E i \in 1..Len(result) : result[i] \in FallbackPayloads

SomethingAccepted == op \in {"popups", "question"} /\ "accepted" \in Range(outcomes)

\* C8: at most two backend calls, the second only after a first attempt that
\* accepted nothing, and after an attempt that accepted something the
\* invocation returns without another call.
C8_CallBudget ==
    /\ [](op \in {"popups", "question"} =>
            /\ calls <= 2
            /\ calls = Len(outcomes)
            /\ \A i \in 1..Len(outcomes) : outcomes[i] = "accepted" => i = Len(outcomes))
    /\ SomethingAccepted ~> (pc = "done")

\* C9: with a backend that fails fatally, generate_popups and
\* generate_question make one call and go straight to the fallback path.
C9_FatalAborts ==
    (op \in {"popups", "question"} /\ backend = "auth_fail" /\ AttemptsOver) =>
        /\ outcomes = <<"fatal">>
        /\ calls = 1
        /\ pc # "raised"

\* C10: an invocation whose first call failed transiently falls back only
\* after a second call.
C10_TransientRetried ==
    (/\ op \in {"popups", "question"}
     /\ AttemptsOver
     /\ outcomes # <<>>
     /\ outcomes[1] = "transient") => calls = 2

\* C11: generate_popups makes attempt 2 after an attempt 1 whose text was not
\* JSON, or was JSON that is no object with a popups key; after the same on
\* attempt 2 it takes the fallback path.
C11_ParseErrorRetried ==
    (op = "popups" /\ outcomes # <<>> /\ outcomes[1] \in {"parse", "shape"}) =>
        /\ (Len(outcomes) = 1) => (pc = "attempt" /\ attempt = LastAttempt)
        /\ (Len(outcomes) = 2 /\ outcomes[2] \in {"parse", "shape"})
                => (pc \in {"fb_loop", "done"} /\ caller = "final")

\* C12: for a non-empty text generate_counter_questions returns count
\* questions unless the valid backend questions and the rule-based ones
\* together are fewer than count.
C12_PaddedToCount ==
    (op = "counter" /\ pc = "done" /\ user_text # "") =>
        Len(result) >= Min(num_questions,
                           Len(valid_questions) + Len(FallbackTable[user_text]))

\* what the attempt makes of the response OneValidOneBanned
OneValidOneBannedOutcome == AttemptOutcome(OneValidOneBanned, VentProfile)

\* C13: after a response with one valid popup and one rejected for a banned
\* phrase, generate_popups returns the valid popup followed by fallback
\* popups up to the minimum, and not the rejected one.
C13_ValidPlusPadding ==
    (/\ op = "popups"
     /\ stress_profile = VentProfile
     /\ pc = "fb_loop"
     /\ caller = "ensure"
     /\ valid_popups = OneValidOneBannedOutcome.valid
     /\ passing = OneValidOneBannedOutcome.passing)
        ~> (/\ PopupsReturned
            /\ Len(result) = Minimum
            /\ result[1] = OneValidOneBannedOutcome.valid[1]
            /\ \A i \in 2..Len(result) : result[i] \in FallbackPayloads
            /\ \A i \in 1..Len(result) : result[i].message # Strip(BannedCand.message.v))

\* C14: a second call of _fallback_popups with the same count, seen set and
\* signals returns the list the first call returned.
C14_FallbackDeterminism ==
    (op = "fallback" /\ pc = "done" /\ earlier # <<>>) => result = earlier[Len(earlier)]

\* C15: is_valid_question rejects a text that does not hold exactly one "?",
\* or does not end with "?" once its whitespace is normalised, or has more
\* than 24 words.
C15_StructuralRejection ==
    (op = "validate" /\ pc = "done") =>
        ((\/ CountOf(question, "?") # 1
          \/ ~EndsWith(Strip(question), "?")
          \/ Len(Split(question)) > 24) => result = FALSE)

\* a rejected text of 25 words that ends with its only "?"
C15_Witness ==
    /\ op = "validate"
    /\ pc = "done"
    /\ result = FALSE
    /\ CountOf(question, "?") = 1
    /\ EndsWith(Strip(question), "?")
    /\ Len(Split(question)) = 25

\* line break and word count of every message a returned popup can carry
ShapeOf == [t \in ResultTexts |-> [newline |-> Contains(t, "\n"), words |-> Len(Split(t))]]

\* C16: every returned popup, from the backend or from the fallback, has a
\* one-line message of 5 to 12 words.
C16_MessageShape ==
    PopupsReturned =>
        \A i \in 1..Len(result) :
            /\ ~ShapeOf[result[i].message].newline
            /\ ShapeOf[result[i].message].words >= 5
            /\ ShapeOf[result[i].message].words <= 12

Represented(p, popups) ==
    \E i \in 1..Len(popups) :
        /\ popups[i].type = p.type
        /\ LoweredOf[popups[i].message] = LoweredOf[p.message]

\* C18: a malformed candidate does not take the rest of its response with
\* it: when a candidate made the attempt raise, the candidates of that
\* response that pass every check are accepted all the same.
C18_RejectionNotFatal ==
    (op = "popups" /\ outcomes # <<>> /\ outcomes[Len(outcomes)] = "error") =>
        \A p \in passing : Represented(p, valid_popups)

\* C19: a candidate that passes schema and validation is left out of the
\* accepted list only when an accepted candidate has its type and its
\* lowercased message.
C19_DedupOnAccepted ==
    (op = "popups" /\ outcomes # <<>>
        /\ outcomes[Len(outcomes)] \in {"accepted", "empty"}) =>
        \A p \in passing : Represented(p, valid_popups)

\* C20: the backend-sourced popups and questions that are returned went
\* through schema, then structural, then lexical-overlap validation.
C20_ChainInOrder ==
    (/\ op \in {"popups", "question"}
     /\ pc = "done"
     /\ outcomes # <<>>
     /\ outcomes[Len(outcomes)] = "accepted") =>
        chain = <<"schema", "structural", "overlap">>

\* position of the first occurrence of x in list
FirstIndex(list, x) == CHOOSE i \in 1..Len(list) : list[i] = x /\ \A j \in 1..(i - 1) : list[j] # x

\* C21: the sequence _fallback_sequence builds is a duplicate-free
\* permutation of the five template keys: first the signals that are template
\* keys, by first occurrence, then the other keys in the order pressure,
\* self_doubt, panic, motivation, distraction.
C21_SequenceOrder ==
    caller # "" =>
        /\ Len(sequence) = 5
        /\ Range(sequence) = {"pressure", "self_doubt", "panic", "motivation", "distraction"}
        /\ \A i, j \in 1..Len(sequence) : i < j =>
            LET a == sequence[i]
                b == sequence[j]
                order == <<"pressure", "self_doubt", "panic", "motivation", "distraction">>
            IN  /\ a # b
                /\ b \in Range(emotion_signals) => a \in Range(emotion_signals)
                /\ (a \in Range(emotion_signals) /\ b \in Range(emotion_signals))
                        => FirstIndex(emotion_signals, a) < FirstIndex(emotion_signals, b)
                /\ (a \notin Range(emotion_signals) /\ b \notin Range(emotion_signals))
                        => FirstIndex(order, a) < FirstIndex(order, b)

\* the sequence built for an unknown name followed by a template key
C21_Witness ==
    /\ caller # ""
    /\ emotion_signals = <<"joy", "motivation">>
    /\ sequence = <<"motivation", "pressure", "self_doubt", "panic", "distraction">>

\* C25: generate_popups on an empty or missing profile returns the empty
\* list at once: no backend call, no fallback popup, whatever the signals.
C25_EmptyProfile ==
    (op = "popups" /\ profile0.keys = {}) =>
        /\ pc = "done"
        /\ result = <<>>
        /\ calls = 0
        /\ caller = ""
        /\ created = <<>>

\* a finished invocation on the empty profile with signals
C25_Witness ==
    /\ PopupsReturned
    /\ profile0 = EmptyProfile
    /\ emotion_signals # <<>>
    /\ result = <<>>
    /\ calls = 0

\* C26: one call of _fallback_popups emits no template twice and none whose
\* key was in the seen set when it was called, at most five popups in all,
\* and every key it emits is in the caller's seen set.
C26_NoRepeatInCall ==
    caller # "" =>
        /\ \A i, j \in 1..Len(created) : created[i].type = created[j].type => i = j
        /\ \A i \in 1..Len(created) :
            /\ <<created[i].type, created[i].message>> \notin seen0
            /\ <<created[i].type, created[i].message>> \in seen
        /\ Len(created) <= 5

\* a call that returned as many popups as asked, past a key that was seen
C26_Witness ==
    /\ op = "fallback"
    /\ pc = "done"
    /\ seen0 = {FallbackKey("pressure")}
    /\ Len(created) = 3
    /\ count = 3
    /\ result = created

\* C22: with the backend failing on both attempts and a (domain, slot) pair
\* that has no fallback question, generate_question returns a generic
\* question that embeds the name of the slot.
C22_GenericQuestion ==
    (/\ op = "question"
     /\ backend \in {"auth_fail", "net_down"}
     /\ slot_target = <<"sleep", "bedtime">>)
        => (pc = "done" /\ Contains(result, "bedtime"))

\* C27: generate_question ends by returning a string: a backend question of
\* attempt 1 or 2 that is non-empty and passes is_valid_question, or, after
\* two attempts that gave none, the result of the fallback path.
C27_ValidatedOrFallback ==
    (op = "question" /\ pc # "idle") =>
        /\ pc = "done"
        /\ calls \in 1..LastAttempt
        /\ \/ (result # "" /\ is_valid_question(result))
           \/ (calls = LastAttempt /\ Len(result) > 0)

\* every question of the keyword rules and of the generic list
RuleBasedQuestions(text) ==
    Range(GenericCounterQuestions)
        \cup UNION {Range(FallbackRules(text)[i].questions) : i \in 1..Len(FallbackRules(text))}

\* C28: generate_counter_questions returns [] without a backend call for an
\* empty or whitespace text; for any other text it calls the backend once,
\* and when that call fails or yields no valid question it returns exactly
\* min(count, 3) rule-based questions; every returned question ends with "?".
C28_CounterQuestions ==
    op = "counter" =>
        /\ calls <= 1
        /\ pc = "done" =>
            /\ user_text = "" => (result = <<>> /\ calls = 0)
            /\ user_text # "" => calls = 1
            /\ (user_text # "" /\ valid_questions = <<>>) =>
                /\ Len(result) = Min(num_questions, 3)
                /\ \A i \in 1..Len(result) : result[i] \in RuleBasedQuestions(user_text)
            /\ \A i \in 1..Len(result) : EndsWith(result[i], "?")

\* four questions asked of a backend that is down: three rule-based ones
C28_Witness ==
    /\ op = "counter"
    /\ pc = "done"
    /\ backend = "net_down"
    /\ user_text = "I hate my friends"
    /\ num_questions = 4
    /\ Len(result) = 3

\* C23 as stated: the profile summary has at most 10 fields, all of them
\* whitelisted names, and no empty value.
C23_AtMostTenFields ==
    op \in {"summary", "popups"} =>
        LET summary == payload.student_profile IN
        /\ Cardinality(DOMAIN summary) <= 10
        /\ DOMAIN summary \subseteq
                {"app", "game", "gaming_hours", "friend", "weak_subject", "last_test",
                 "days_left", "study_hours", "rival", "family", "expectation"}
        /\ \A field \in DOMAIN summary : summary[field] # ""

\* C23, amended: the profile summary has at most 11 fields, all of them
\* among the eleven whitelisted names, and no empty value: an absent or
\* empty section or slot leaves no field.
C23_SummaryFields ==
    op \in {"summary", "popups"} =>
        LET summary == payload.student_profile
            Origin(field) == CHOOSE e \in Range(SummaryFields) : e[3] = field
        IN  /\ Cardinality(DOMAIN summary) <= 11
            /\ DOMAIN summary \subseteq
                    {"app", "game", "gaming_hours", "friend", "weak_subject", "last_test",
                     "days_left", "study_hours", "rival", "family", "expectation"}
            /\ \A field \in DOMAIN summary :
                /\ summary[field] # ""
                /\ Origin(field)[1] \in DOMAIN stress_profile.sections
                /\ Origin(field)[2] \in DOMAIN stress_profile.sections[Origin(field)[1]]
                /\ summary[field] = stress_profile.sections[Origin(field)[1]][Origin(field)[2]]

\* the summary of a profile with an empty section, a section of empty slots
\* and three sections filled
C23_Witness ==
    /\ op = "summary"
    /\ pc = "done"
    /\ {"distractions", "social_comparison"} \subseteq DOMAIN stress_profile.sections
    /\ stress_profile.sections["distractions"] = NoSections
    /\ stress_profile.sections["social_comparison"] = [comparison_person |-> ""]
    /\ DOMAIN payload.student_profile
            = {"weak_subject", "last_test", "days_left", "study_hours", "family", "expectation"}

\* C29: a suggest_request event is answered with exactly one suggestions
\* emission to the requesting client: the empty list, with no backend call,
\* for a text of fewer than 4 characters after trimming; otherwise 1 to 4
\* items, the backend's when it yields any, those of the keyword bank when
\* it fails or yields none.
C29_OneAnswer ==
    op = "suggest" =>
        /\ Len(emissions) <= 1
        /\ pc \in {"done", "raised"} =>
            /\ Len(emissions) = 1
            /\ emissions[1].event = "suggestions"
            /\ emissions[1].to = request.sid
            /\ LET items == emissions[1].items
                   bank == UNION {Range(SuggestionBank[i].msgs) : i \in 1..Len(SuggestionBank)}
                                \cup Range(GenericSuggestions)
               IN  IF Len(user_text) < 4
                    THEN items = <<>> /\ calls = 0
                    ELSE /\ calls = 1
                         /\ Len(items) \in 1..4
                         /\ IF outcomes = <<"accepted">>
                                THEN \A i \in 1..Len(items) : items[i] \notin bank
                                ELSE \A i \in 1..Len(items) : items[i] \in bank

\* the first n fallback popups, in the order of the signals, whose key is
\* not in seenKeys
Filler(n, seenKeys, signals) ==
    LET Unseen(popup_type) == FallbackKey(popup_type) \notin seenKeys
        fresh == SelectSeq(_fallback_sequence(signals), Unseen)
    IN  [i \in 1..Min(n, Len(fresh)) |-> FallbackPayload(fresh[i])]

\* what an invocation with the locals l returns when nothing else runs,
\* given how its attempts ended, and whether it returns at all
AloneReturn(l) ==
    IF l.profile0.keys = {} THEN [returns |-> TRUE, list |-> <<>>]
    ELSE IF l.outcomes # <<>> /\ l.outcomes[Len(l.outcomes)] = "accepted"
        THEN LET fill == Filler(Minimum - Len(l.valid_popups),
                                SeenOfValid(l.valid_popups), l.emotion_signals)
             IN  [returns |-> Len(l.valid_popups) + Len(fill) >= Minimum,
                  list |-> Take(l.valid_popups \o fill, Limit)]
        ELSE LET fill == Filler(FinalCount, {}, l.emotion_signals)
             IN  [returns |-> Len(fill) >= FinalCount, list |-> Take(fill, FinalLimit)]

\* the last attempt of l, if it walked its candidates to the end, accepted
\* every candidate that passes the checks on its own: none was dropped for
\* what an earlier attempt accepted or saw (no response of PairResponses
\* carries one message twice)
FreshAttempt(l) ==
    (/\ l.op = "popups"
     /\ l.outcomes # <<>>
     /\ l.outcomes[Len(l.outcomes)] \in {"accepted", "empty"})
        => Range(l.valid_popups) = l.passing

\* C24: attempts and invocations share no mutable state: attempt 2 of
\* generate_popups starts with no accepted popup and an empty dedup set,
\* whatever attempt 1 saw, and each of two interleaved invocations returns
\* the list it returns when run alone with the same backend responses.
C24_NoSharedState ==
    \A l \in {CurrentLocals, other} :
        /\ FreshAttempt(l)
        /\ (l.op = "popups" /\ l.pc = "done") =>
                (AloneReturn(l).returns /\ l.result = AloneReturn(l).list)

\* two invocations, each suspended in mid-course, have both returned: one on
\* its second attempt, after a first that saw a message and accepted none
C24_Witness ==
    /\ pc = "done"
    /\ other.pc = "done"
    /\ preempted
    /\ other.preempted
    /\ outcomes = <<"empty", "accepted">>
    /\ other.outcomes = <<"accepted">>
    /\ emotion_signals # other.emotion_signals
    /\ Len(result) = Minimum
    /\ result[1].message = Strip(HighTtlCand.message.v)
    /\ result[Minimum] \in FallbackPayloads
    /\ other.result[Minimum] \in FallbackPayloads

====
